---- MODULE Spec2Model ----
(***************************************************************************)
(* krano: the chunked export-and-decorate pipeline.                        *)
(*                                                                         *)
(* Krano.export (krano.py) queries the database, hands the result to       *)
(* ExcelExporter.export (exporter.py), which submits one ExcelExportProcess *)
(* per chunk to a multiprocessing Pool, joins the pool and partitions the  *)
(* outcomes; then, if decorations were given, ExcelDecorationManager does  *)
(* the same with one ExcelDecorator per exported file; then the SQL file   *)
(* is written and the files are handed to the JIRA forwarder.              *)
(*                                                                         *)
(* The main thread is modelled by the program counter pc; the pool workers *)
(* by the status of every submitted task (queued, running, done).          *)
(***************************************************************************)
EXTENDS Integers, Sequences, FiniteSets, TLC

\* ------------------------------------------------------------------ bounds
\* Largest number of records a query returns in the model.
MaxRows == 3
\* Largest small chunk size tried (next to 0, -1 and the XLSX row limit).
MaxChunkSize == 2
\* Largest pool size (parallel_processes) tried.
MaxProcs == 2
\* Largest number of decorations the caller passes.
MaxDecorations == 1
\* Longest record sequence / largest size given to _chunker on its own.
MaxSeqLen == 6

\* Last value of the clock; the clock counts from the start of a call.
MaxClock == 2

\* Largest power of 1024 in the byte sizes given to _human_readable_size.
MaxSizeExp == 5

\* ------------------------------------------------------- program constants
\* exporter.py:154, the maximum number of rows of an XLSX file.
XlsxMaxRows == 1048576

\* Python's None, for the string-valued fields.
None == "None"

\* --------------------------------------------------------------- variables
VARIABLES
    \* Krano object (krano.py:37-43)
    db_connection_settings,
    export_folderpath,
    config_raised,          \* what the last set_export_config call raised, or None
    \* the running Krano.export call
    pc,                     \* position of the main thread
    raised,                 \* the exception that ended the call, or None
    args,                   \* the arguments of the call
    excel_decorations,      \* the caller's list object passed as excel_decorations
    result,                 \* the QueryResult of db.query
    total_file_count,       \* exporter.py:158
    file_counter,           \* exporter.py:167
    export_tasks,           \* exporter.py:160, process_results and their tasks
    xlsx_exporter_result,   \* krano.py:133
    copy_excel_decorations, \* krano.py:145
    decoration_tasks,       \* exporter.py:368
    decoration_counter,     \* exporter.py:371, file_counter of the decoration manager
    xlsx_decorator_result,  \* krano.py:155
    pools,                  \* number of Pool objects created by the call
    sql_writes,             \* number of SQLFileWriter.write calls of the call
    uploaded,               \* file paths given to JIRAForwarder.upload
    commented,              \* whether JIRACommenter.comment was called
    upload_counter,         \* files JIRAForwarder.upload has gone through
    openfile,               \* forwarders.py:40, None while the name is unbound
    upload_failed,          \* whether an upload failure was logged (forwarders.py:46)
    \* the file system under the export folder
    fs,
    fs0,                    \* fs as it was when the call started
    faulted,                \* the tasks (stage, file path) that hit an exception
    \* the clock datetime.now() reads, and when the decoration stage began and ended
    clock,
    decoration_started_at,  \* exporter.py:367-370
    decoration_ended_at,    \* exporter.py:380-382
    \* _chunker applied on its own
    c_seq, c_size, c_chunks, c_pc,
    \* _human_readable_size applied on its own
    h_size, h_result, h_pc

krano_vars == <<db_connection_settings, export_folderpath, config_raised>>

run_vars == <<pc, raised, args, excel_decorations, result, total_file_count, file_counter,
              export_tasks, xlsx_exporter_result, copy_excel_decorations,
              decoration_tasks, decoration_counter, xlsx_decorator_result,
              pools, sql_writes, uploaded, commented, fs, fs0, faulted,
              clock, decoration_started_at, decoration_ended_at,
              upload_counter, openfile, upload_failed>>

upload_vars == <<upload_counter, openfile, upload_failed>>

time_vars == <<clock, decoration_started_at, decoration_ended_at>>

chunker_vars == <<c_seq, c_size, c_chunks, c_pc>>

size_vars == <<h_size, h_result, h_pc>>

vars == <<krano_vars, run_vars, chunker_vars, size_vars>>

\* ----------------------------------------------------------- the file system
\* Paths given to set_export_config: the empty string, a path that does not
\* exist, a path to a regular file, a path to a directory.
FolderPaths == {"", "/missing", "/file", "/dir"}

\* os.path.exists, os.path.isdir for those paths.
exists(path) == path \in {"/file", "/dir"}

isdir(path) == path = "/dir"

\* krano.py:129 with valvo.py's kind of file name; exporter.py:152 splits it.
xlsx_filename == "Data.xlsx"

filepath_part(folder) == folder \o "/" \o "Data"

filepath_extension == ".xlsx"

\* os.path.join(folder, xlsx_filename)
xlsx_filepath(folder) == folder \o "/" \o xlsx_filename

\* krano.py:130
sql_filepath(folder) == filepath_part(folder) \o ".sql"

\* Contents of a path.
Absent == [kind |-> "absent", rows |-> <<>>, sheets |-> <<>>, text |-> ""]

Old == [kind |-> "old", rows |-> <<>>, sheets |-> <<>>, text |-> ""]

\* Spreadsheet paths the call may look at in the existing export folder.
XlsxPaths(n) ==
    {xlsx_filepath("/dir")} \cup
    {filepath_part("/dir") \o "_" \o ToString(i) \o filepath_extension : i \in 1..n}

AllPaths == XlsxPaths(MaxRows) \cup {sql_filepath("/dir")}

EmptyFs == [p \in AllPaths |-> Absent]

\* os.path.isfile
isfile(files, path) == path \in DOMAIN files /\ files[path].kind # "absent"

\* ------------------------------------------------------------ ExcelExporter
Min(a, b) == IF a < b THEN a ELSE b

\* Python's a % b for b # 0: the result has the sign of the divisor.
PyMod(a, b) == IF b > 0 THEN a % b ELSE -((-a) % (-b))

\* Python's int(a / b) for b # 0: the quotient truncated toward zero.
PyIntDiv(a, b) ==
    LET abs(x) == IF x < 0 THEN -x ELSE x
        q == abs(a) \div abs(b)
    IN  IF (a < 0) = (b < 0) THEN q ELSE -q

\* range(pos, stop, step) for step # 0, as the sequence of its values.
RECURSIVE range(_, _, _)
range(pos, stop, step) ==
    IF step > 0
    THEN IF pos < stop THEN <<pos>> \o range(pos + step, stop, step) ELSE <<>>
    ELSE IF pos > stop THEN <<pos>> \o range(pos + step, stop, step) ELSE <<>>

\* seq[lo:hi] for 0 <= lo (0-based, hi exclusive, clipped to the length).
slice(seq, lo, hi) == SubSeq(seq, lo + 1, Min(hi, Len(seq)))

\* Mutant of _chunker: only the full chunks, the shorter last one is dropped.
_chunker_full_only(seq, size) ==
    LET positions == range(0, (Len(seq) \div size) * size, size)
    IN  [i \in DOMAIN positions |-> slice(seq, positions[i], positions[i] + size)]

\* exporter.py:217-219. With size < 0 the range is empty and no slice is taken;
\* size = 0 never gets here (line 223 raises first).
_chunker(seq, size) ==
    LET positions == range(0, Len(seq), size)
    IN  [i \in DOMAIN positions |-> slice(seq, positions[i], positions[i] + size)]

\* exporter.py:221-228, for chunk_size # 0 (chunk_size = 0 raises
\* ZeroDivisionError at line 223).
_calculate_total_file_count(record_count, chunk_size) ==
    LET mod == PyMod(record_count, chunk_size)
    IN  IF mod > 0
        THEN PyIntDiv(record_count, chunk_size) + 1
        ELSE PyIntDiv(record_count, chunk_size)

\* Mutant of chunk_filepath: every chunk goes to the base name.
chunk_filepath_base(folder, total, counter) ==
    filepath_part(folder) \o filepath_extension

\* Mutant of chunk_filepath: the first chunk keeps the base name.
chunk_filepath_first(folder, total, counter) ==
    IF counter = 1
    THEN filepath_part(folder) \o filepath_extension
    ELSE filepath_part(folder) \o "_" \o ToString(counter) \o filepath_extension

\* exporter.py:171-174
chunk_filepath(folder, total, counter) ==
    IF total = 1
    THEN filepath_part(folder) \o filepath_extension
    ELSE filepath_part(folder) \o "_" \o ToString(counter) \o filepath_extension

\* Mutant of skip_chunk: the overwrite flag is ignored.
skip_chunk_always(overwrite, files, path) == isfile(files, path)

\* exporter.py:176-179: whether the loop skips the chunk
skip_chunk(overwrite, files, path) == ~overwrite /\ isfile(files, path)

\* exporter.py:72-101, ExcelExportProcess.run: the value the task returns.
\* writable: whether DataFrame/ExcelWriter could write the file.
run(task, writable) ==
    IF writable
    THEN [kind |-> "result", filepath |-> task.filepath,
          row_count |-> Len(task.records), no |-> task.no]
    ELSE [kind |-> "error", filepath |-> task.filepath,
          row_count |-> 0, no |-> task.no]

\* Values of worksheet cells: a text, or a point in time of the clock.
Text(s) == [kind |-> "str", str |-> s, time |-> 0]

Datetime(t) == [kind |-> "datetime", str |-> "", time |-> t]

\* A worksheet: its name and the cells written one by one (the rows of the data
\* sheet are held in the file's rows).
Worksheet(sheet_name, cells) == [sheet_name |-> sheet_name, cells |-> cells]

NoCells == [c \in {} |-> Text("")]

\* The file ExcelWriter leaves at the path: one sheet with the task's records.
written_xlsx(task, sheet_name) ==
    [kind |-> "xlsx", rows |-> task.records,
     sheets |-> <<Worksheet(sheet_name, NoCells)>>, text |-> ""]

IsError(outcome) == outcome.kind = "error"

IsResult(outcome) == outcome.kind = "result"

\* exporter.py:195-204 and 387-396: the outcomes of a list of tasks, in the
\* order of process_results, and their partition.
outcomes(tasks) == [i \in DOMAIN tasks |-> tasks[i].outcome]

process_errors(tasks) == SelectSeq(outcomes(tasks), IsError)

\* Mutant of process_results: the successes are gathered last task first.
process_results_reversed(tasks) ==
    LET ok == SelectSeq(outcomes(tasks), IsResult)
    IN  [i \in DOMAIN ok |-> ok[Len(ok) + 1 - i]]

\* Mutant of process_results: every outcome is taken for a success.
process_results_all(tasks) == outcomes(tasks)

process_results(tasks) == SelectSeq(outcomes(tasks), IsResult)

\* Mutant of ExcelExporterResult_has_errros: one error goes unnoticed.
ExcelExporterResult_has_errros_many(res) == Len(res.errors) > 1

\* exporter.py:118-120, ExcelExporterResult.has_errros
ExcelExporterResult_has_errros(res) == Len(res.errors) > 0

\* Mutant of ExcelDcorationManagerResult_has_errros: one error goes unnoticed.
ExcelDcorationManagerResult_has_errros_many(res) == Len(res.errors) > 1

\* exporter.py:129-131, ExcelDcorationManagerResult.has_errros
ExcelDcorationManagerResult_has_errros(res) == Len(res.errors) > 0

\* ------------------------------------------------------------- decorations
\* valvo.py:23-31: a decoration the caller builds (sheet 'Info').
UserDecoration(i) ==
    [sheet_name |-> "Info" \o ToString(i), title |-> "SMP-999",
     elements |-> << [label |-> "Created on", content |-> "CURRENT_DATETIME"],
                     [label |-> "", content |-> ""],
                     [label |-> "Created by", content |-> "Your Name"] >>]

\* krano.py:149-151: the built-in decoration with the query details.
excel_sql_decoration(res) ==
    [sheet_name |-> "SQL", title |-> "Query details",
     elements |-> << [label |-> "Query duration", content |-> "0:00:00"],
                     [label |-> "SQL query", content |-> res.sql_statement] >>]

\* The excel_decorations argument: None, or a list of 0..MaxDecorations.
NoDecorations == [none |-> TRUE, list |-> <<>>]

DecorationArgs ==
    {NoDecorations} \cup
    {[none |-> FALSE, list |-> [i \in 1..k |-> UserDecoration(i)]] : k \in 0..MaxDecorations}

\* Python truthiness of the argument (krano.py:147).
truthy(decorations) == ~decorations.none /\ Len(decorations.list) > 0

\* -------------------------------------------------------------- the tasks
NoOutcome == [kind |-> "none", filepath |-> "", row_count |-> 0, no |-> 0]

\* ExcelExporterResult / ExcelDcorationManagerResult before the stage returned.
NoStageResult == [returned |-> FALSE, results |-> <<>>, errors |-> <<>>]

NoResult == [queried |-> FALSE, records |-> <<>>, record_count |-> 0, sql_statement |-> ""]

\* postgresql.py:69-74, QueryResult of a query that fetched n records.
QueryResult(sql_statement, n) ==
    [queried |-> TRUE, records |-> [i \in 1..n |-> i], record_count |-> n,
     sql_statement |-> sql_statement]

ChunkSizes == (-1..MaxChunkSize) \cup {XlsxMaxRows, XlsxMaxRows + 1}

\* The arguments of Krano.export (krano.py:90).
Args ==
    [sql_statement : {"SELECT 1"}, sheet_name : {"Data"}, chunk_size : ChunkSizes,
     overwrite_files : BOOLEAN, parallel_processes : 1..MaxProcs,
     excel_decorations : DecorationArgs, jira_issue : {None, "SMP-999"}]

NoArgs ==
    [sql_statement |-> "", sheet_name |-> "", chunk_size |-> 1,
     overwrite_files |-> FALSE, parallel_processes |-> 1,
     excel_decorations |-> NoDecorations, jira_issue |-> None]

Running(tasks) == {i \in DOMAIN tasks : tasks[i].status = "running"}

Queued(tasks) == {i \in DOMAIN tasks : tasks[i].status = "queued"}

\* Mutant of AllDone: the pool is not joined at all.
AllDone_no_join(tasks) == TRUE

\* Mutant of AllDone: the join returns once a worker has taken every task.
AllDone_taken(tasks) == \A i \in DOMAIN tasks : tasks[i].status # "queued"

\* Mutant of AllDone: the join returns with the first task that completes.
AllDone_first(tasks) == tasks = <<>> \/ \E i \in DOMAIN tasks : tasks[i].status = "done"

\* exporter.py:187-188 and 379-380, pool.close(); pool.join(): every submitted
\* task has completed.
AllDone(tasks) == \A i \in DOMAIN tasks : tasks[i].status = "done"

\* ------------------------------------------------------------------- Init
RunInit ==
    /\ pc = "idle"
    /\ raised = None
    /\ args = NoArgs
    /\ excel_decorations = NoDecorations
    /\ result = NoResult
    /\ total_file_count = 0
    /\ file_counter = 0
    /\ export_tasks = <<>>
    /\ xlsx_exporter_result = NoStageResult
    /\ copy_excel_decorations = <<>>
    /\ decoration_tasks = <<>>
    /\ decoration_counter = 0
    /\ xlsx_decorator_result = NoStageResult
    /\ pools = 0
    /\ sql_writes = 0
    /\ uploaded = <<>>
    /\ commented = FALSE
    /\ fs = EmptyFs
    /\ fs0 = EmptyFs
    /\ faulted = {}
    /\ upload_counter = 0
    /\ openfile = None
    /\ upload_failed = FALSE
    /\ clock = 0
    /\ decoration_started_at = 0
    /\ decoration_ended_at = 0

ChunkerIdle ==
    /\ c_seq = <<>>
    /\ c_size = 1
    /\ c_chunks = <<>>
    /\ c_pc = "off"

SizeIdle ==
    /\ h_size = [mant |-> 0, exp |-> 0]
    /\ h_result = [size |-> [mant |-> 0, exp |-> 0], unit |-> "", text |-> ""]
    /\ h_pc = "off"

\* krano.py:37-43
Init ==
    /\ db_connection_settings = None
    /\ export_folderpath = None
    /\ config_raised = None
    /\ RunInit
    /\ ChunkerIdle
    /\ SizeIdle

\* ------------------------------------------------------ Krano configuration
\* krano.py:45-56
set_database_config ==
    /\ pc = "idle"
    /\ db_connection_settings' = "Database PROD"
    /\ UNCHANGED <<export_folderpath, config_raised, run_vars, chunker_vars>>
    /\ UNCHANGED size_vars

\* krano.py:70-76: what set_export_config(path) raises, None when it returns.
set_export_config_raises(path) ==
    IF ~exists(path) THEN "FileNotFoundError"
    ELSE IF ~isdir(path) THEN "NotADirectoryError"
    ELSE None

\* krano.py:68: the path the object holds after set_export_config(path)
stored_folderpath(old, path) == path

\* krano.py:58-76: the path is stored, then checked; the call returns or raises
\* to its caller, and the object lives on either way.
set_export_config(path) ==
    /\ pc = "idle"
    /\ export_folderpath' = stored_folderpath(export_folderpath, path)
    /\ config_raised' = set_export_config_raises(path)
    /\ UNCHANGED <<db_connection_settings, run_vars, chunker_vars>>
    /\ UNCHANGED size_vars

\* -------------------------------------------------------------- Krano.export
\* The call ends by raising exc out of Krano.export.
Raise(exc) ==
    /\ pc' = "raised"
    /\ raised' = exc

\* Mutant of falsy: only None counts as not set.
falsy_none(x) == x = None

\* Python's 'not x' for the values the Krano object holds: None and the empty
\* string are falsy (krano.py:109 and 113).
falsy(x) == x \in {None, ""}

\* krano.py:110-111 and 114-115: the exceptions of the two checks.
ValueError(errmsg) == "ValueError: " \o errmsg

NoDatabaseConfig == ValueError("No database configuration was set")

NoExportFolder == ValueError("No export folderpath was defined")

\* krano.py:109-111
export_no_database_config(a) ==
    /\ falsy(db_connection_settings)
    /\ args' = a
    /\ excel_decorations' = a.excel_decorations
    /\ Raise(NoDatabaseConfig)
    /\ UNCHANGED <<result, total_file_count, file_counter, export_tasks,
                   xlsx_exporter_result, copy_excel_decorations, decoration_tasks, decoration_counter,
                   xlsx_decorator_result, pools, sql_writes, uploaded, commented,
                   fs, fs0, faulted>>
    /\ UNCHANGED time_vars
    /\ UNCHANGED upload_vars

\* krano.py:113-115: None and the empty string are falsy
export_no_export_folder(a) ==
    /\ ~falsy(db_connection_settings)
    /\ falsy(export_folderpath)
    /\ args' = a
    /\ excel_decorations' = a.excel_decorations
    /\ Raise(NoExportFolder)
    /\ UNCHANGED <<result, total_file_count, file_counter, export_tasks,
                   xlsx_exporter_result, copy_excel_decorations, decoration_tasks, decoration_counter,
                   xlsx_decorator_result, pools, sql_writes, uploaded, commented,
                   fs, fs0, faulted>>
    /\ UNCHANGED time_vars
    /\ UNCHANGED upload_vars

\* The checks of krano.py:109-115 passed.
configured ==
    /\ ~falsy(db_connection_settings)
    /\ ~falsy(export_folderpath)

\* The files found under the export folder when the call starts: any set of
\* older spreadsheets when the folder is a directory, nothing otherwise.
Folders(n) ==
    IF isdir(export_folderpath)
    THEN {[p \in AllPaths |-> IF p \in e THEN Old ELSE Absent] : e \in SUBSET XlsxPaths(n)}
    ELSE {EmptyFs}

\* Mutant of empty_result: the empty result is not recognised.
empty_result_never(res) == res.record_count < 0

\* krano.py:125: the result of the query is empty
empty_result(res) == res.record_count = 0

\* exporter.py:154: the chunk size the constructor rejects
chunk_size_rejected(chunk_size) == chunk_size > XlsxMaxRows

\* krano.py:117-127: the query ran and fetched nothing; the call returns.
export_empty_result(a, n, files) ==
    /\ configured
    /\ empty_result(QueryResult(a.sql_statement, n))
    /\ args' = a
    /\ excel_decorations' = a.excel_decorations
    /\ result' = QueryResult(a.sql_statement, n)
    /\ fs' = files
    /\ fs0' = files
    /\ pc' = "done"
    /\ UNCHANGED <<raised, total_file_count, file_counter, export_tasks,
                   xlsx_exporter_result, copy_excel_decorations, decoration_tasks,
                   decoration_counter, xlsx_decorator_result, pools, sql_writes,
                   uploaded, commented, faulted>>
    /\ UNCHANGED time_vars
    /\ UNCHANGED upload_vars

\* krano.py:132, exporter.py:145-155: ExcelExporter's constructor raises
export_chunk_size_error(a, n, files) ==
    /\ configured
    /\ ~empty_result(QueryResult(a.sql_statement, n))
    /\ chunk_size_rejected(a.chunk_size)
    /\ args' = a
    /\ excel_decorations' = a.excel_decorations
    /\ result' = QueryResult(a.sql_statement, n)
    /\ fs' = files
    /\ fs0' = files
    /\ Raise("ExcelExporterChunkSizeError")
    /\ UNCHANGED <<total_file_count, file_counter, export_tasks,
                   xlsx_exporter_result, copy_excel_decorations, decoration_tasks, decoration_counter,
                   xlsx_decorator_result, pools, sql_writes, uploaded, commented,
                   faulted>>
    /\ UNCHANGED time_vars
    /\ UNCHANGED upload_vars

\* krano.py:133, exporter.py:158 and 223: record_count % 0 raises
export_zero_division(a, n, files) ==
    /\ configured
    /\ ~empty_result(QueryResult(a.sql_statement, n))
    /\ ~chunk_size_rejected(a.chunk_size)
    /\ a.chunk_size = 0
    /\ args' = a
    /\ excel_decorations' = a.excel_decorations
    /\ result' = QueryResult(a.sql_statement, n)
    /\ fs' = files
    /\ fs0' = files
    /\ Raise("ZeroDivisionError")
    /\ UNCHANGED <<total_file_count, file_counter, export_tasks,
                   xlsx_exporter_result, copy_excel_decorations, decoration_tasks, decoration_counter,
                   xlsx_decorator_result, pools, sql_writes, uploaded, commented,
                   faulted>>
    /\ UNCHANGED time_vars
    /\ UNCHANGED upload_vars

\* krano.py:117-133, exporter.py:145-167: the query, the constructor, the file
\* count and the pool; the main thread stands before the loop of line 168.
export_start(a, n, files) ==
    /\ configured
    /\ ~empty_result(QueryResult(a.sql_statement, n))
    /\ ~chunk_size_rejected(a.chunk_size)
    /\ a.chunk_size # 0
    /\ args' = a
    /\ excel_decorations' = a.excel_decorations
    /\ result' = QueryResult(a.sql_statement, n)
    /\ fs' = files
    /\ fs0' = files
    /\ total_file_count' = _calculate_total_file_count(n, a.chunk_size)
    /\ pools' = pools + 1
    /\ file_counter' = 0
    /\ pc' = "export_dispatch"
    /\ UNCHANGED <<raised, export_tasks, xlsx_exporter_result,
                   copy_excel_decorations, decoration_tasks, decoration_counter, xlsx_decorator_result,
                   sql_writes, uploaded, commented, faulted>>
    /\ UNCHANGED time_vars
    /\ UNCHANGED upload_vars

\* krano.py:90-133: a call of Krano.export, up to the first task submission.
Krano_export ==
    /\ pc = "idle"
    /\ UNCHANGED <<krano_vars, chunker_vars>>
    /\ \E a \in Args :
        \/ export_no_database_config(a)
        \/ export_no_export_folder(a)
        \/ \E n \in 0..MaxRows : \E files \in Folders(n) :
            \/ export_empty_result(a, n, files)
            \/ export_chunk_size_error(a, n, files)
            \/ export_zero_division(a, n, files)
            \/ export_start(a, n, files)
    /\ UNCHANGED size_vars

\* ------------------------------------------------------ ExcelExporter.export
\* The chunks the loop of exporter.py:168 goes through.
chunks == _chunker(result.records, args.chunk_size)

NewTask(no, filepath, records) ==
    [no |-> no, filepath |-> filepath, records |-> records,
     status |-> "queued", outcome |-> NoOutcome]

\* exporter.py:168-185: one turn of the loop: count, name, skip or submit.
ExportDispatch ==
    /\ pc = "export_dispatch"
    /\ file_counter < Len(chunks)
    /\ LET counter == file_counter + 1
           path == chunk_filepath(export_folderpath, total_file_count, counter)
       IN  /\ file_counter' = counter
           /\ export_tasks' =
                IF skip_chunk(args.overwrite_files, fs, path)
                THEN export_tasks
                ELSE Append(export_tasks, NewTask(counter, path, chunks[counter]))
    /\ UNCHANGED <<krano_vars, chunker_vars, pc, raised, args, result,
                   total_file_count, xlsx_exporter_result, copy_excel_decorations,
                   decoration_tasks, decoration_counter, xlsx_decorator_result, pools, sql_writes,
                   uploaded, commented, fs, fs0, faulted>>
    /\ UNCHANGED time_vars
    /\ UNCHANGED excel_decorations
    /\ UNCHANGED upload_vars
    /\ UNCHANGED size_vars

\* Mutant of worker_free: one worker of the pool never takes a task.
worker_free_but_one(tasks, processes) == Cardinality(Running(tasks)) < processes - 1

\* Mutant of worker_free: every submitted task gets a process of its own.
worker_free_always(tasks, processes) == TRUE

\* multiprocessing.Pool(processes): a worker is free to take a task
worker_free(tasks, processes) == Cardinality(Running(tasks)) < processes

\* datetime.now(): time is seen where the clock is read. A read gives the value
\* of the last read or a later one; the clock variable holds the last value read,
\* counted from the start of the call. (The export stage has taken time: the
\* read at the start of the decoration stage, in ExportJoin, is a tick later.)
datetime_now(last) == {t \in last..(last + 1) : t <= MaxClock}

\* The pool hands out the submitted tasks in the order of submission.
next_task(tasks, i) == i \in Queued(tasks) /\ \A j \in Queued(tasks) : i <= j

\* exporter.py:184: a free worker of the pool takes the next submitted task.
ExportWorkerStart ==
    /\ pc = "export_dispatch"
    /\ worker_free(export_tasks, args.parallel_processes)
    /\ \E i \in DOMAIN export_tasks :
        /\ next_task(export_tasks, i)
        /\ export_tasks' = [export_tasks EXCEPT ![i].status = "running"]
    /\ UNCHANGED <<krano_vars, chunker_vars, pc, raised, args, result,
                   total_file_count, file_counter, xlsx_exporter_result,
                   copy_excel_decorations, decoration_tasks, decoration_counter, xlsx_decorator_result,
                   pools, sql_writes, uploaded, commented, fs, fs0, faulted>>
    /\ UNCHANGED time_vars
    /\ UNCHANGED excel_decorations
    /\ UNCHANGED upload_vars
    /\ UNCHANGED size_vars

\* exporter.py:72-101: the task writes its file and returns its result, or hits
\* an exception (always, when the folder is no directory) and returns the error.
ExportWorkerFinish ==
    /\ pc = "export_dispatch"
    /\ \E i \in Running(export_tasks) :
       \E writable \in (IF isdir(export_folderpath) THEN BOOLEAN ELSE {FALSE}) :
        LET task == export_tasks[i] IN
        /\ export_tasks' = [export_tasks EXCEPT ![i].status = "done",
                                                ![i].outcome = run(task, writable)]
        /\ fs' = IF writable
                 THEN [fs EXCEPT ![task.filepath] = written_xlsx(task, args.sheet_name)]
                 ELSE fs
        /\ faulted' = IF writable THEN faulted
                      ELSE faulted \cup {[stage |-> "export", filepath |-> task.filepath]}
    /\ UNCHANGED <<krano_vars, chunker_vars, pc, raised, args, result,
                   total_file_count, file_counter, xlsx_exporter_result,
                   copy_excel_decorations, decoration_tasks, decoration_counter, xlsx_decorator_result,
                   pools, sql_writes, uploaded, commented, fs0>>
    /\ UNCHANGED time_vars
    /\ UNCHANGED excel_decorations
    /\ UNCHANGED upload_vars
    /\ UNCHANGED size_vars

\* exporter.py:206: the ExcelExporterResult of the joined tasks
ExcelExporterResult(tasks) ==
    [returned |-> TRUE, results |-> process_results(tasks), errors |-> process_errors(tasks)]

\* exporter.py:405
ExcelDcorationManagerResult(tasks) ==
    [returned |-> TRUE, results |-> process_results(tasks), errors |-> process_errors(tasks)]

\* Mutant of exported_xlsx_filepaths: the path planned for every chunk, the
\* skipped ones included.
exported_xlsx_filepaths_planned ==
    [i \in DOMAIN chunks |-> chunk_filepath(export_folderpath, total_file_count, i)]

\* krano.py:143
exported_xlsx_filepaths ==
    [i \in DOMAIN xlsx_exporter_result.results |-> xlsx_exporter_result.results[i].filepath]

\* krano.py:43
sql_decoration == TRUE

\* Mutant of caller_list_after_append: the list appended to is the caller's own.
caller_list_aliased(list, decoration) == list \o <<decoration>>

\* krano.py:145 and 152: the caller's list after the append, which goes to the
\* list that list.copy() made.
caller_list_after_append(list, decoration) == list

\* Mutant of decorations_for_manager: the caller's decorations and nothing else.
decorations_for_manager_plain(decorations, res) == decorations.list

\* krano.py:145-152: the list given to the decoration manager
decorations_for_manager(decorations, res) ==
    IF sql_decoration
    THEN decorations.list \o <<excel_sql_decoration(res)>>
    ELSE decorations.list

\* exporter.py:187-215 and krano.py:135-155, exporter.py:363-371: the pool is
\* joined, the outcomes are partitioned, and the driver raises, goes on to the
\* decoration (whose pool is created) or goes on to the SQL file.
ExportJoin ==
    /\ pc = "export_dispatch"
    /\ file_counter = Len(chunks)
    /\ AllDone(export_tasks)
    /\ LET res == ExcelExporterResult(export_tasks) IN
        /\ xlsx_exporter_result' = res
        /\ IF ExcelExporterResult_has_errros(res)
           THEN /\ Raise("KranoExportError")
                /\ UNCHANGED <<copy_excel_decorations, pools, decoration_counter,
                               clock, decoration_started_at, excel_decorations>>
           ELSE IF args.excel_decorations.none
           THEN /\ Raise("AttributeError")
                /\ UNCHANGED <<copy_excel_decorations, pools, decoration_counter,
                               clock, decoration_started_at, excel_decorations>>
           ELSE IF truthy(args.excel_decorations)
           THEN /\ copy_excel_decorations' =
                     decorations_for_manager(args.excel_decorations, result)
                /\ pools' = pools + 1
                /\ decoration_counter' = 0
                /\ excel_decorations' =
                     IF sql_decoration
                     THEN [excel_decorations EXCEPT !.list =
                             caller_list_after_append(@, excel_sql_decoration(result))]
                     ELSE excel_decorations
                /\ clock' = clock + 1
                /\ decoration_started_at' = clock + 1
                /\ pc' = "decorate_dispatch"
                /\ UNCHANGED raised
           ELSE /\ copy_excel_decorations' = args.excel_decorations.list
                /\ pc' = "write_sql"
                /\ UNCHANGED <<raised, pools, decoration_counter, clock,
                               decoration_started_at, excel_decorations>>
    /\ UNCHANGED <<krano_vars, chunker_vars, args, result, total_file_count,
                   file_counter, export_tasks, decoration_tasks, xlsx_decorator_result,
                   sql_writes, uploaded, commented, fs, fs0, faulted>>
    /\ UNCHANGED decoration_ended_at
    /\ UNCHANGED upload_vars
    /\ UNCHANGED size_vars

\* ------------------------------------------------ ExcelDecorationManager.decorate
\* exporter.py:373-375, ExcelDecorator(process_name, filepath, self.decorations)
NewDecorator(no, filepath, decorations) ==
    [no |-> no, filepath |-> filepath, decorations |-> decorations,
     status |-> "queued", outcome |-> NoOutcome]

\* exporter.py:372-377: one turn of the loop: one ExcelDecorator per file path.
DecorateDispatch ==
    /\ pc = "decorate_dispatch"
    /\ decoration_counter < Len(exported_xlsx_filepaths)
    /\ LET counter == decoration_counter + 1 IN
        /\ decoration_counter' = counter
        /\ decoration_tasks' =
             Append(decoration_tasks, NewDecorator(counter, exported_xlsx_filepaths[counter],
                                 copy_excel_decorations))
    /\ UNCHANGED <<krano_vars, chunker_vars, pc, raised, args, result,
                   total_file_count, file_counter, export_tasks, xlsx_exporter_result,
                   copy_excel_decorations, xlsx_decorator_result, pools, sql_writes,
                   uploaded, commented, fs, fs0, faulted>>
    /\ UNCHANGED time_vars
    /\ UNCHANGED excel_decorations
    /\ UNCHANGED upload_vars
    /\ UNCHANGED size_vars

\* exporter.py:376: a free worker of the pool takes the next submitted task.
DecorateWorkerStart ==
    /\ pc = "decorate_dispatch"
    /\ worker_free(decoration_tasks, args.parallel_processes)
    /\ \E i \in DOMAIN decoration_tasks :
        /\ next_task(decoration_tasks, i)
        /\ decoration_tasks' = [decoration_tasks EXCEPT ![i].status = "running"]
    /\ UNCHANGED <<krano_vars, chunker_vars, pc, raised, args, result,
                   total_file_count, file_counter, decoration_counter, export_tasks,
                   xlsx_exporter_result, copy_excel_decorations,
                   xlsx_decorator_result, pools, sql_writes, uploaded, commented,
                   fs, fs0, faulted>>
    /\ UNCHANGED time_vars
    /\ UNCHANGED excel_decorations
    /\ UNCHANGED upload_vars
    /\ UNCHANGED size_vars

\* exporter.py:282-346, ExcelDecorator.decorate: the value the task returns.
decorate(task, saved) ==
    IF saved
    THEN [kind |-> "result", filepath |-> task.filepath, row_count |-> 0, no |-> task.no]
    ELSE [kind |-> "error", filepath |-> task.filepath, row_count |-> 0, no |-> task.no]

\* Mutant of _replace_placeholders: the placeholder stands for the time the call
\* started, not for the time of the write.
_replace_placeholders_at_call(content, now) ==
    IF content = "CURRENT_DATETIME" THEN Datetime(0) ELSE Text(content)

\* exporter.py:276-280: datetime.now() for the placeholder, the content otherwise.
_replace_placeholders(content, now) ==
    IF content = "CURRENT_DATETIME" THEN Datetime(now) ELSE Text(content)

\* Mutant of cell_index: the row counter is advanced before the cells are written.
cell_index_advanced(i) == 6 + i

\* exporter.py:322-334: the cells of element number i (from 1) of a decoration.
cell_index(i) == 6 + (i - 1)

key_cell(i) == "B" \o ToString(cell_index(i))

value_cell(i) == "C" \o ToString(cell_index(i))

\* exporter.py:316-334: the sheet of one decoration, written at clock value now:
\* the title in B3, then each element's label and resolved content.
decoration_sheet(decoration, now) ==
    LET elements == decoration.elements
        cells == {"B3"} \cup {key_cell(i) : i \in DOMAIN elements}
                        \cup {value_cell(i) : i \in DOMAIN elements}
        element_of(c) == CHOOSE i \in DOMAIN elements : c \in {key_cell(i), value_cell(i)}
    IN  Worksheet(decoration.sheet_name,
                  [c \in cells |->
                    IF c = "B3" THEN Text(decoration.title)
                    ELSE IF c = key_cell(element_of(c))
                    THEN Text(elements[element_of(c)].label)
                    ELSE _replace_placeholders(elements[element_of(c)].content, now)])

\* exporter.py:314-337: the workbook with one more sheet per decoration.
decorated_xlsx(file, decorations, now) ==
    [file EXCEPT !.sheets = file.sheets \o
        [k \in DOMAIN decorations |-> decoration_sheet(decorations[k], now)]]

\* exporter.py:282-346: the task loads the workbook, adds the sheets and saves it,
\* or hits an exception and returns the error with the file left as it was. The
\* cells of one file are written with one read of the clock.
DecorateWorkerFinish ==
    /\ pc = "decorate_dispatch"
    /\ \E i \in Running(decoration_tasks) : \E saved \in BOOLEAN : \E t \in datetime_now(clock) :
        LET task == decoration_tasks[i] IN
        /\ decoration_tasks' = [decoration_tasks EXCEPT ![i].status = "done",
                                                        ![i].outcome = decorate(task, saved)]
        /\ fs' = IF saved
                 THEN [fs EXCEPT ![task.filepath] = decorated_xlsx(@, task.decorations, t)]
                 ELSE fs
        /\ clock' = IF saved THEN t ELSE clock
        /\ faulted' = IF saved THEN faulted
                      ELSE faulted \cup {[stage |-> "decoration", filepath |-> task.filepath]}
    /\ UNCHANGED <<krano_vars, chunker_vars, pc, raised, args, result,
                   total_file_count, file_counter, decoration_counter, export_tasks,
                   xlsx_exporter_result, copy_excel_decorations,
                   xlsx_decorator_result, pools, sql_writes, uploaded, commented, fs0>>
    /\ UNCHANGED <<decoration_started_at, decoration_ended_at>>
    /\ UNCHANGED excel_decorations
    /\ UNCHANGED upload_vars
    /\ UNCHANGED size_vars

\* exporter.py:379-405 and krano.py:157-163: the pool is joined, the outcomes are
\* partitioned, and the driver raises or goes on to the SQL file.
DecorateJoin ==
    /\ pc = "decorate_dispatch"
    /\ decoration_counter = Len(exported_xlsx_filepaths)
    /\ AllDone(decoration_tasks)
    /\ LET res == ExcelDcorationManagerResult(decoration_tasks) IN
        /\ xlsx_decorator_result' = res
        /\ IF ExcelDcorationManagerResult_has_errros(res)
           THEN Raise("KranoDecorationError")
           ELSE pc' = "write_sql" /\ UNCHANGED raised
    /\ UNCHANGED <<krano_vars, chunker_vars, args, result, total_file_count,
                   file_counter, export_tasks, xlsx_exporter_result,
                   copy_excel_decorations, decoration_tasks, decoration_counter,
                   pools, sql_writes, uploaded, commented, fs, fs0, faulted>>
    /\ \E t \in datetime_now(clock) : clock' = t /\ decoration_ended_at' = t
    /\ UNCHANGED decoration_started_at
    /\ UNCHANGED excel_decorations
    /\ UNCHANGED upload_vars
    /\ UNCHANGED size_vars

\* ------------------------------------------------------ SQL file and hand-off
\* Mutant of written_sql: the file is opened for writing and left empty.
written_sql_empty(sql_statement) ==
    [kind |-> "sql", rows |-> <<>>, sheets |-> <<>>, text |-> ""]

\* exporter.py:419-422: the file SQLFileWriter.write leaves
written_sql(sql_statement) ==
    [kind |-> "sql", rows |-> <<>>, sheets |-> <<>>, text |-> sql_statement]

\* krano.py:165-168: the SQL file is written next to the spreadsheets; open()
\* raises when the folder does not exist or is no directory.
WriteSql ==
    /\ pc = "write_sql"
    /\ IF isdir(export_folderpath)
       THEN /\ fs' = [fs EXCEPT ![sql_filepath(export_folderpath)] =
                            written_sql(result.sql_statement)]
            /\ sql_writes' = sql_writes + 1
            /\ pc' = IF args.jira_issue # None THEN "upload" ELSE "done"
            /\ UNCHANGED raised
       ELSE /\ Raise(IF exists(export_folderpath)
                     THEN "NotADirectoryError" ELSE "FileNotFoundError")
            /\ UNCHANGED <<fs, sql_writes>>
    /\ UNCHANGED <<krano_vars, chunker_vars, args, result, total_file_count,
                   file_counter, export_tasks, xlsx_exporter_result,
                   copy_excel_decorations, decoration_tasks, decoration_counter, xlsx_decorator_result,
                   pools, uploaded, commented, fs0, faulted>>
    /\ UNCHANGED time_vars
    /\ UNCHANGED excel_decorations
    /\ UNCHANGED upload_vars
    /\ UNCHANGED size_vars

\* Mutant of upload_filepaths: the spreadsheets without the SQL file.
upload_filepaths_xlsx_only == exported_xlsx_filepaths

\* krano.py:169
upload_filepaths == exported_xlsx_filepaths \o <<sql_filepath(export_folderpath)>>

\* krano.py:169-171, forwarders.py:25-36: the files are given to the uploader,
\* which stands before its loop; openfile is not bound yet.
Upload ==
    /\ pc = "upload"
    /\ uploaded' = upload_filepaths
    /\ upload_counter' = 0
    /\ openfile' = None
    /\ pc' = "uploading"
    /\ UNCHANGED <<krano_vars, chunker_vars, raised, args, result, total_file_count,
                   file_counter, export_tasks, xlsx_exporter_result,
                   copy_excel_decorations, decoration_tasks, decoration_counter, xlsx_decorator_result,
                   pools, sql_writes, commented, fs, fs0, faulted, upload_failed>>
    /\ UNCHANGED time_vars
    /\ UNCHANGED excel_decorations
    /\ UNCHANGED size_vars

\* What an upload attempt can come to: the file is opened and posted, open()
\* raises, or the post raises (requests.post or raise_for_status).
UploadOutcomes == {"ok", "open raises", "post raises"}

\* forwarders.py:40: open() binds openfile unless it raises.
openfile_after_try(bound, filepath, outcome) ==
    IF outcome = "open raises" THEN bound ELSE filepath

\* forwarders.py:47-48: openfile.close() in the finally clause raises
\* UnboundLocalError when no open() has bound the name yet; closing again the
\* file of an earlier turn does nothing.
finally_raises(bound) == bound = None

\* forwarders.py:37-48: one turn of the loop of JIRAForwarder.upload; after the
\* last file upload returns, its local openfile is gone, and the driver stands
\* before the comment.
UploadFile ==
    /\ pc = "uploading"
    /\ upload_counter < Len(uploaded)
    /\ \E outcome \in UploadOutcomes :
        LET filepath == uploaded[upload_counter + 1]
            bound == openfile_after_try(openfile, filepath, outcome)
            last == upload_counter + 1 = Len(uploaded)
        IN  /\ upload_counter' = upload_counter + 1
            /\ upload_failed' = (upload_failed \/ outcome # "ok")
            /\ IF finally_raises(bound)
               THEN /\ openfile' = bound
                    /\ Raise("UnboundLocalError")
               ELSE /\ openfile' = IF last THEN None ELSE bound
                    /\ pc' = IF last THEN "comment" ELSE "uploading"
                    /\ UNCHANGED raised
    /\ UNCHANGED <<krano_vars, chunker_vars, args, result, total_file_count,
                   file_counter, export_tasks, xlsx_exporter_result,
                   copy_excel_decorations, decoration_tasks, decoration_counter, xlsx_decorator_result,
                   pools, sql_writes, uploaded, commented, fs, fs0, faulted>>
    /\ UNCHANGED time_vars
    /\ UNCHANGED excel_decorations
    /\ UNCHANGED size_vars

\* krano.py:173-177, forwarders.py:64-83: the comment is posted; the call returns.
Comment ==
    /\ pc = "comment"
    /\ commented' = TRUE
    /\ pc' = "done"
    /\ UNCHANGED <<krano_vars, chunker_vars, raised, args, result, total_file_count,
                   file_counter, export_tasks, xlsx_exporter_result,
                   copy_excel_decorations, decoration_tasks, decoration_counter, xlsx_decorator_result,
                   pools, sql_writes, uploaded, fs, fs0, faulted>>
    /\ UNCHANGED time_vars
    /\ UNCHANGED excel_decorations
    /\ UNCHANGED upload_vars
    /\ UNCHANGED size_vars

\* The caller has the return value or the exception of Krano.export; the Krano
\* object is kept and may be configured and used again. What lies in the export
\* folder between two calls is not the program's doing: the next call finds any
\* set of older files there (Folders).
Return ==
    /\ pc \in {"done", "raised"}
    /\ pc' = "idle"
    /\ raised' = None
    /\ args' = NoArgs
    /\ excel_decorations' = NoDecorations
    /\ result' = NoResult
    /\ total_file_count' = 0
    /\ file_counter' = 0
    /\ export_tasks' = <<>>
    /\ xlsx_exporter_result' = NoStageResult
    /\ copy_excel_decorations' = <<>>
    /\ decoration_tasks' = <<>>
    /\ decoration_counter' = 0
    /\ xlsx_decorator_result' = NoStageResult
    /\ pools' = 0
    /\ sql_writes' = 0
    /\ uploaded' = <<>>
    /\ commented' = FALSE
    /\ fs' = EmptyFs
    /\ fs0' = EmptyFs
    /\ faulted' = {}
    /\ upload_counter' = 0
    /\ openfile' = None
    /\ upload_failed' = FALSE
    /\ clock' = 0
    /\ decoration_started_at' = 0
    /\ decoration_ended_at' = 0
    /\ UNCHANGED <<krano_vars, chunker_vars>>
    /\ UNCHANGED size_vars

\* ------------------------------------------------------------ specification
Next ==
    \/ set_database_config
    \/ \E path \in FolderPaths : set_export_config(path)
    \/ Krano_export
    \/ ExportDispatch
    \/ ExportWorkerStart
    \/ ExportWorkerFinish
    \/ ExportJoin
    \/ DecorateDispatch
    \/ DecorateWorkerStart
    \/ DecorateWorkerFinish
    \/ DecorateJoin
    \/ WriteSql
    \/ Upload
    \/ UploadFile
    \/ Comment
    \/ Return

Spec == Init /\ [][Next]_vars

\* A step of one of the two stages, by the main process or by a pool worker.
StageStep ==
    \/ ExportDispatch
    \/ ExportWorkerStart
    \/ ExportWorkerFinish
    \/ ExportJoin
    \/ DecorateDispatch
    \/ DecorateWorkerStart
    \/ DecorateWorkerFinish
    \/ DecorateJoin

\* The scheduling the stages rely on: while a stage can take a step, one is
\* taken. The operating system lets the main process go on with its loop and,
\* after pool.join(), with the gathering of the outcomes; an idle worker process
\* of the pool takes the next submitted task, and a task that runs comes to its
\* return statement, because ExcelExportProcess.run (exporter.py:72-101) and
\* ExcelDecorator.decorate (exporter.py:282-346) have no loop but the ones over
\* their finite inputs and catch every exception.
Fairness == WF_vars(StageStep)

FairSpec == Init /\ [][Next]_vars /\ Fairness

\* ------------------------------------------------- _chunker applied on its own
\* Record sequences of every length up to MaxSeqLen, and the chunk sizes the
\* constructor accepts: the small ones and the XLSX row limit.
ChunkerSeqs == {[i \in 1..n |-> i] : n \in 0..MaxSeqLen}

ChunkerSizes == (1..(MaxSeqLen + 1)) \cup {XlsxMaxRows}

ChunkerInit ==
    /\ db_connection_settings = None
    /\ export_folderpath = None
    /\ config_raised = None
    /\ RunInit
    /\ c_seq \in ChunkerSeqs
    /\ c_size \in ChunkerSizes
    /\ c_chunks = <<>>
    /\ c_pc = "call"
    /\ SizeIdle

\* exporter.py:168, 217-219: the chunks of the sequence, in the order yielded.
chunker_call ==
    /\ c_pc = "call"
    /\ c_chunks' = _chunker(c_seq, c_size)
    /\ c_pc' = "returned"
    /\ UNCHANGED <<krano_vars, run_vars, c_seq, c_size>>
    /\ UNCHANGED size_vars

ChunkerNext == chunker_call

SpecChunker == ChunkerInit /\ [][ChunkerNext]_vars

\* ------------------------------------- ExcelExportProcess._human_readable_size
\* A size as the function holds it: mant * 1024^exp. The size comes in as an
\* integer (exp >= 0); each `size /= 1024.0` lowers exp by one, which is exact
\* for a float as long as the mantissa fits its 53 bits.
Float(mant, exp) == [mant |-> mant, exp |-> exp]

RECURSIVE Pow1024(_)
Pow1024(n) == IF n = 0 THEN 1 ELSE 1024 * Pow1024(n - 1)

\* exporter.py:106, `size < 1024.0`. The mantissas are below 1024^2, so a size
\* with exp < -1 is below 1.
less_than_1024(size) ==
    \/ size.mant = 0
    \/ /\ size.exp <= 0
       /\ \/ size.exp < -1
          \/ size.mant < Pow1024(1 - size.exp)

\* exporter.py:108, `size /= 1024.0`.
divide_by_1024(size) == Float(size.mant, size.exp - 1)

\* exporter.py:105.
Units == <<"", "KB", "MB", "GB", "TB">>

\* exporter.py:105-108: the loop over the units. It leaves by `break` with the
\* unit it is at, or by running out of units: then the last turn has divided
\* the size and the unit is still the last one.
RECURSIVE unit_loop(_, _)
unit_loop(size, i) ==
    IF less_than_1024(size)
    THEN [size |-> size, unit |-> Units[i]]
    ELSE IF i = Len(Units)
         THEN [size |-> divide_by_1024(size), unit |-> Units[i]]
         ELSE unit_loop(divide_by_1024(size), i + 1)

\* The nearest integer to q / d, a tie going to the even one, as the float
\* formatting of Python rounds the exact value of the float.
RoundHalfEven(q, d) ==
    LET f == q \div d
        r == q % d
    IN  IF 2 * r < d THEN f
        ELSE IF 2 * r > d THEN f + 1
        ELSE IF f % 2 = 0 THEN f ELSE f + 1

\* exporter.py:109, `{size:.2f}`: the hundredths the text shows.
Hundredths(size) ==
    IF size.exp >= 0
    THEN 100 * size.mant * Pow1024(size.exp)
    ELSE RoundHalfEven(100 * size.mant, Pow1024(0 - size.exp))

\* exporter.py:109: the text for a number of hundredths and a unit.
FormatSize(hundredths, unit) ==
    ToString(hundredths \div 100) \o "." \o ToString((hundredths \div 10) % 10)
        \o ToString(hundredths % 10) \o unit

\* exporter.py:103-109, with decimal_places = 2 as exporter.py:89 calls it.
_human_readable_size(size) ==
    LET out == unit_loop(size, 1)
    IN  [size |-> out.size, unit |-> out.unit,
         text |-> FormatSize(Hundredths(out.size), out.unit)]

\* The sizes the function is applied to: 0 bytes and mant * 1024^exp bytes.
SizeMantissas == {1, 512, 1000, 1023, 1024, 1025, 1152, 1536, 2047}

Sizes ==
    {Float(0, 0)} \cup {Float(m, e) : m \in SizeMantissas, e \in 0..MaxSizeExp}

SizeInit ==
    /\ db_connection_settings = None
    /\ export_folderpath = None
    /\ config_raised = None
    /\ RunInit
    /\ ChunkerIdle
    /\ h_size \in Sizes
    /\ h_result = [size |-> Float(0, 0), unit |-> "", text |-> ""]
    /\ h_pc = "call"

\* exporter.py:89: the size of the written file is made readable.
size_call ==
    /\ h_pc = "call"
    /\ h_result' = _human_readable_size(h_size)
    /\ h_pc' = "returned"
    /\ UNCHANGED <<krano_vars, run_vars, chunker_vars, h_size>>

SizeNext == size_call

SpecSize == SizeInit /\ [][SizeNext]_vars

\* ------------------------------------------------------------------ claims
\* File paths of a list of outcomes, and of the faults of a stage.
Filepaths(outs) == {outs[i].filepath : i \in DOMAIN outs}

Faults(stage) == {f.filepath : f \in {g \in faulted : g.stage = stage}}

\* How many outcomes of the list belong to task number no.
Occurrences(outs, no) == Cardinality({i \in DOMAIN outs : outs[i].no = no})

\* C1: failure isolation in ExcelExporter.export. Once the export stage has
\* returned, every dispatched task has exactly one outcome in exactly one of the
\* two lists; the failures are exactly the tasks that hit an exception and the
\* successes are exactly the other dispatched tasks, whatever the interleaving.
C1_FailureIsolation ==
    xlsx_exporter_result.returned =>
        LET res == xlsx_exporter_result
            dispatched == {export_tasks[i].filepath : i \in DOMAIN export_tasks}
            F == Faults("export")
        IN  /\ F \subseteq dispatched
            /\ Len(res.errors) = Cardinality(F)
            /\ Len(res.results) = Len(export_tasks) - Cardinality(F)
            /\ Filepaths(res.errors) = F
            /\ Filepaths(res.results) = dispatched \ F
            /\ \A i \in DOMAIN export_tasks :
                Occurrences(res.errors, export_tasks[i].no)
                    + Occurrences(res.results, export_tasks[i].no) = 1

\* C1 witness: at least two tasks were dispatched, exactly one of them failed,
\* and the aggregate has 1 failure and k-1 successes.
C1_Witness ==
    /\ xlsx_exporter_result.returned
    /\ Len(export_tasks) >= 2
    /\ Cardinality(Faults("export")) = 1
    /\ Len(xlsx_exporter_result.errors) = 1
    /\ Len(xlsx_exporter_result.results) = Len(export_tasks) - 1

\* C2: export stage abort in Krano.export. Whenever the export aggregate holds a
\* failure, the call has ended with KranoExportError, and in the call no
\* decoration pool or task exists, the SQL file was not written and nothing was
\* uploaded or commented.
C2_ExportAbort ==
    (xlsx_exporter_result.returned /\ Len(xlsx_exporter_result.errors) > 0) =>
        /\ pc = "raised"
        /\ raised = "KranoExportError"
        /\ pools = 1
        /\ decoration_tasks = <<>>
        /\ sql_writes = 0
        /\ isdir(export_folderpath) =>
            fs[sql_filepath(export_folderpath)] = fs0[sql_filepath(export_folderpath)]
        /\ uploaded = <<>>
        /\ ~commented

\* C2 witness: a call that asked for decorations and an upload ended with
\* KranoExportError after one task failed and another one succeeded.
C2_Witness ==
    /\ pc = "raised"
    /\ raised = "KranoExportError"
    /\ Len(xlsx_exporter_result.errors) = 1
    /\ Len(xlsx_exporter_result.results) >= 1
    /\ truthy(args.excel_decorations)
    /\ args.jira_issue # None

\* C3: decoration stage abort in Krano.export. Whenever the decoration aggregate
\* holds a failure, the call has ended with KranoDecorationError and nothing was
\* uploaded or commented.
C3_DecorationAbort ==
    (xlsx_decorator_result.returned /\ Len(xlsx_decorator_result.errors) > 0) =>
        /\ pc = "raised"
        /\ raised = "KranoDecorationError"
        /\ uploaded = <<>>
        /\ ~commented

\* C3 witness: a call with an upload requested ended with KranoDecorationError
\* with one file decorated and another one not.
C3_Witness ==
    /\ pc = "raised"
    /\ raised = "KranoDecorationError"
    /\ Len(xlsx_decorator_result.errors) >= 1
    /\ Len(xlsx_decorator_result.results) >= 1
    /\ args.jira_issue # None

\* ceil(n / size) for size > 0
CeilDiv(n, size) == (n + size - 1) \div size

\* The concatenation of a sequence of sequences, in index order.
RECURSIVE Flatten(_)
Flatten(seqs) == IF seqs = <<>> THEN <<>> ELSE Head(seqs) \o Flatten(Tail(seqs))

\* C4: chunk planning. For a sequence of n rows and 1 <= size <= 1048576,
\* _chunker yields 0 chunks when n = 0 and ceil(n/size) chunks otherwise, chunk i
\* (0-based) is rows[i*size .. min((i+1)*size, n)), no chunk is longer than
\* size, and the chunks concatenated in order are the row sequence.
C4_ChunkPlanning ==
    (c_pc = "returned" /\ c_size \in 1..XlsxMaxRows) =>
        LET n == Len(c_seq)
            count == Len(c_chunks)
        IN  /\ count = IF n = 0 THEN 0 ELSE CeilDiv(n, c_size)
            /\ \A i \in 0..(count - 1) :
                LET lo == i * c_size
                    hi == Min((i + 1) * c_size, n)
                IN  /\ c_chunks[i + 1] = [j \in 1..(hi - lo) |-> c_seq[lo + j]]
                    /\ Len(c_chunks[i + 1]) <= c_size
                    /\ Len(c_chunks[i + 1]) >= 1
            /\ Flatten(c_chunks) = c_seq

\* C4 witness: a sequence that splits into several chunks, the last one shorter.
C4_Witness ==
    /\ c_pc = "returned"
    /\ Len(c_chunks) >= 3
    /\ Len(c_chunks[Len(c_chunks)]) < c_size
    /\ Len(c_chunks[1]) = c_size

\* C5: filename determinism in ExcelExporter.export. With one chunk in all, a
\* dispatched task targets the configured file name unchanged; with k > 1 chunks
\* the task of the i-th chunk (1-based) targets base_i + extension and carries
\* the i-th chunk, whatever chunks were skipped before it.
C5_FilenameDeterminism ==
    LET planned == chunks
        k == Len(planned)
    IN  \A t \in DOMAIN export_tasks :
        LET task == export_tasks[t]
        IN  /\ task.no \in 1..k
            /\ task.records = planned[task.no]
            /\ k = 1 => task.filepath = export_folderpath \o "/" \o xlsx_filename
            /\ k > 1 => task.filepath =
                 export_folderpath \o "/Data_" \o ToString(task.no) \o ".xlsx"

\* C5 witness: several chunks, an earlier one skipped because its file exists,
\* and a later one dispatched under its own sequence number.
C5_Witness ==
    /\ Len(chunks) > 1
    /\ \E t \in DOMAIN export_tasks :
        /\ export_tasks[t].no > t
        /\ export_tasks[t].status = "done"

\* The path of the i-th chunk and whether the no-overwrite policy skips it.
Target(i) == chunk_filepath(export_folderpath, total_file_count, i)

Skipped(i) == ~args.overwrite_files /\ isfile(fs0, Target(i))

\* C6: skip policy in ExcelExporter.export. A chunk the loop has passed has a
\* task unless overwrite is off and its target file existed; a skipped chunk has
\* no task and no outcome in the aggregate and its file stays as it was
\* throughout the call; with overwrite on every chunk passed has one task.
C6_SkipPolicy ==
    pc \notin {"idle"} =>
        \A i \in 1..file_counter :
            LET tasks_of == {t \in DOMAIN export_tasks : export_tasks[t].no = i} IN
            /\ Skipped(i) =>
                /\ tasks_of = {}
                /\ fs[Target(i)] = fs0[Target(i)]
                /\ Target(i) \notin Filepaths(xlsx_exporter_result.results)
                /\ Target(i) \notin Filepaths(xlsx_exporter_result.errors)
                /\ \A d \in DOMAIN decoration_tasks : decoration_tasks[d].filepath # Target(i)
            /\ ~Skipped(i) =>
                /\ Cardinality(tasks_of) = 1
                /\ \A t \in tasks_of : export_tasks[t].filepath = Target(i)
            /\ args.overwrite_files => Cardinality(tasks_of) = 1

\* C6 witness: a call with overwrite off that skipped a chunk, exported another
\* one, decorated it and ended normally.
C6_Witness ==
    /\ pc = "done"
    /\ \E i \in 1..file_counter : Skipped(i)
    /\ Len(xlsx_exporter_result.results) >= 1
    /\ xlsx_decorator_result.returned

\* C6 witness for overwrite on: the file that existed was written anew.
C6_WitnessOverwrite ==
    /\ pc = "done"
    /\ args.overwrite_files
    /\ \E i \in 1..file_counter : isfile(fs0, Target(i)) /\ fs[Target(i)].kind = "xlsx"

\* C7: driver transition out of Exporting. After an export with no failure
\* (existing folder, accepted chunk size), the decoration stage runs if and only
\* if decoration specs were supplied; with none supplied (the argument omitted,
\* or an empty list) the call raises nothing and goes on to the SQL file.
C7_NoDecorationsGoesToDone ==
    ( /\ xlsx_exporter_result.returned
      /\ Len(xlsx_exporter_result.errors) = 0
      /\ isdir(export_folderpath)
      /\ args.chunk_size \in 1..XlsxMaxRows ) =>
        /\ (pools = 2) <=> truthy(args.excel_decorations)
        /\ ~truthy(args.excel_decorations) =>
            /\ raised = None
            /\ pc \in {"write_sql", "upload", "comment", "done"}
            /\ pc = "done" => sql_writes = 1

\* C8: empty result short-circuit. When the query fetched 0 rows the call has
\* returned without raising; no pool was created, no task dispatched, no file
\* written, nothing uploaded or commented.
C8_EmptyResult ==
    (result.queried /\ result.record_count = 0) =>
        /\ pc = "done"
        /\ raised = None
        /\ pools = 0
        /\ export_tasks = <<>>
        /\ decoration_tasks = <<>>
        /\ fs = fs0
        /\ sql_writes = 0
        /\ uploaded = <<>>
        /\ ~commented

\* C8 witness: an empty result for a call that asked for decorations and an
\* upload, with a chunk size the exporter would reject.
C8_Witness ==
    /\ result.queried
    /\ result.record_count = 0
    /\ pc = "done"
    /\ truthy(args.excel_decorations)
    /\ args.jira_issue # None
    /\ isfile(fs0, xlsx_filepath(export_folderpath))

\* C9: chunk size validation. With records to export into an existing folder, a
\* chunk size outside 1..1048576 (zero, negative or above the row limit) ends
\* the call with ExcelExporterChunkSizeError raised by the constructor, before
\* any pool exists and any file is written.
C9_ChunkSizeValidated ==
    ( /\ result.queried
      /\ result.record_count > 0
      /\ isdir(export_folderpath)
      /\ args.chunk_size \notin 1..XlsxMaxRows ) =>
        /\ pc = "raised"
        /\ raised = "ExcelExporterChunkSizeError"
        /\ pools = 0
        /\ fs = fs0

\* C10: export folder validation. Over any sequence of set_export_config and
\* export calls, Krano.export gets past its precondition checks (the query has
\* run) only when the configured export folder is one that set_export_config
\* accepts, i.e. an existing directory; a rejected path is never the one the
\* export runs with.
C10_ExportOnlyWithAcceptedFolder ==
    result.queried =>
        /\ set_export_config_raises(export_folderpath) = None
        /\ isdir(export_folderpath)

\* C11: full join in both coordinators. Once a stage has returned its aggregate,
\* its loop had submitted a task for every item before (the export loop went
\* through all chunks, the decoration loop through all exported files), every
\* task of the stage has completed, and the aggregate holds one outcome per task:
\* no outcome is read while a sibling task is queued or running.
C11_FullJoin ==
    /\ xlsx_exporter_result.returned =>
        /\ file_counter = Len(chunks)
        /\ \A i \in DOMAIN export_tasks :
            export_tasks[i].status = "done" /\ export_tasks[i].outcome.kind # "none"
        /\ Len(xlsx_exporter_result.results) + Len(xlsx_exporter_result.errors)
             = Len(export_tasks)
    /\ xlsx_decorator_result.returned =>
        /\ decoration_counter = Len(xlsx_exporter_result.results)
        /\ \A i \in DOMAIN decoration_tasks :
            decoration_tasks[i].status = "done" /\ decoration_tasks[i].outcome.kind # "none"
        /\ Len(xlsx_decorator_result.results) + Len(xlsx_decorator_result.errors)
             = Len(decoration_tasks)

\* C11 witness: both stages returned, each with more tasks than pool workers.
C11_Witness ==
    /\ xlsx_exporter_result.returned
    /\ xlsx_decorator_result.returned
    /\ Len(export_tasks) > args.parallel_processes
    /\ Len(decoration_tasks) > args.parallel_processes

\* C12: stage termination. Under the fair scheduling of FairSpec a stage that
\* has started comes to the return of its aggregate, whatever the number of
\* tasks and the pool size (at least one worker), more tasks than workers
\* included; by then every task it submitted has completed with an outcome, none
\* is left queued or running.
C12_StageTermination ==
    /\ (pc = "export_dispatch") ~>
         (xlsx_exporter_result.returned /\ Len(export_tasks) <= Len(chunks)
            /\ \A i \in DOMAIN export_tasks : export_tasks[i].outcome.kind # "none")
    /\ (pc = "decorate_dispatch") ~>
         (xlsx_decorator_result.returned
            /\ Len(decoration_tasks) = Len(xlsx_exporter_result.results)
            /\ \A i \in DOMAIN decoration_tasks : decoration_tasks[i].outcome.kind # "none")

\* C12 witness: both stages have returned in a run with one worker and three
\* tasks in each stage.
C12_Witness ==
    /\ xlsx_exporter_result.returned
    /\ xlsx_decorator_result.returned
    /\ args.parallel_processes = 1
    /\ Len(export_tasks) = MaxRows
    /\ Len(decoration_tasks) = MaxRows
    /\ \A i \in DOMAIN decoration_tasks : decoration_tasks[i].status = "done"

\* C13: bounded concurrency. In each stage the number of tasks that execute at
\* the same time never exceeds the pool size parallel_processes the run was
\* called with.
C13_BoundedConcurrency ==
    pc # "idle" =>
        /\ Cardinality({i \in DOMAIN export_tasks : export_tasks[i].status = "running"})
             <= args.parallel_processes
        /\ Cardinality({i \in DOMAIN decoration_tasks : decoration_tasks[i].status = "running"})
             <= args.parallel_processes

\* C13 witness: the pool of two workers is full and a third task waits.
C13_Witness ==
    /\ pc = "decorate_dispatch"
    /\ args.parallel_processes = MaxProcs
    /\ Cardinality(Running(decoration_tasks)) = MaxProcs
    /\ Queued(decoration_tasks) # {}

\* The paths of the export tasks that returned a result, in the order of dispatch.
ExportSuccessList ==
    LET ok == SelectSeq(export_tasks, LAMBDA t : t.outcome.kind = "result")
    IN  [i \in DOMAIN ok |-> ok[i].filepath]

\* C14: decoration dispatch. The decoration tasks are, in order, one per file of
\* the export success list of the run (all of them once the stage has returned,
\* and none for a file that was skipped, failed or lay in the folder before),
\* and every task holds the same list of decorations.
C14_DecorationDispatch ==
    /\ Len(decoration_tasks) <= Len(ExportSuccessList)
    /\ \A i \in DOMAIN decoration_tasks :
        /\ decoration_tasks[i].filepath = ExportSuccessList[i]
        /\ decoration_tasks[i].decorations = copy_excel_decorations
    /\ \A i, j \in DOMAIN decoration_tasks :
        /\ decoration_tasks[i].decorations = decoration_tasks[j].decorations
        /\ decoration_tasks[i].filepath = decoration_tasks[j].filepath => i = j
    /\ xlsx_decorator_result.returned => Len(decoration_tasks) = Len(ExportSuccessList)

\* C14 witness: the stage returned with two tasks while another chunk's file was
\* skipped because it existed.
C14_Witness ==
    /\ xlsx_decorator_result.returned
    /\ Len(decoration_tasks) = 2
    /\ \E i \in DOMAIN chunks : Skipped(i)

\* The decoration tasks that saved their file.
Decorated == {i \in DOMAIN decoration_tasks : decoration_tasks[i].outcome.kind = "result"}

\* The sheet decoration number k of task i left in the task's file (the data
\* sheet comes first).
SheetOf(i, k) == fs[decoration_tasks[i].filepath].sheets[1 + k]

\* The points in time written into the file of decoration task i.
Timestamps(i) ==
    {sh.cells[c].time : <<sh, c>> \in
        {<<sh, c>> \in UNION {{<<SheetOf(i, k), c>> : c \in DOMAIN SheetOf(i, k).cells} :
                                  k \in DOMAIN decoration_tasks[i].decorations} :
            sh.cells[c].kind = "datetime"}}

\* C15: placeholder resolution at write time. In every file a decoration task
\* saved, an element whose content is exactly 'CURRENT_DATETIME' holds a point
\* in time read from the clock not before the decoration stage started and not
\* after it ended (not after now, while it runs); every other content, every
\* label and the title are written as they are in the decoration.
C15_PlaceholderAtWriteTime ==
    \A i \in Decorated : \A k \in DOMAIN decoration_tasks[i].decorations :
        LET decoration == decoration_tasks[i].decorations[k]
            ws == SheetOf(i, k).cells
        IN  /\ ws["B3"] = [kind |-> "str", str |-> decoration.title, time |-> 0]
            /\ \A e \in DOMAIN decoration.elements :
                LET element == decoration.elements[e]
                    label == ws["B" \o ToString(5 + e)]
                    content == ws["C" \o ToString(5 + e)]
                IN  /\ label = [kind |-> "str", str |-> element.label, time |-> 0]
                    /\ IF element.content = "CURRENT_DATETIME"
                       THEN /\ content.kind = "datetime"
                            /\ decoration_started_at <= content.time
                            /\ content.time <= clock
                            /\ xlsx_decorator_result.returned =>
                                 content.time <= decoration_ended_at
                       ELSE content = [kind |-> "str", str |-> element.content, time |-> 0]

\* C15 witness: the stage has returned and two of the files it decorated hold
\* different points in time.
C15_Witness ==
    /\ xlsx_decorator_result.returned
    /\ \E i, j \in Decorated :
        \E t \in Timestamps(i) : \E u \in Timestamps(j) : t < u

\* C16: the decorations are never mutated. From the call to its end the list
\* object the caller passed as excel_decorations holds what it held at the call,
\* element by element, although the built-in 'SQL' decoration is appended for
\* the manager and the placeholders are resolved in the files.
C16_DecorationsNotMutated ==
    pc # "idle" => excel_decorations = args.excel_decorations

\* C16 witness: a run ended after the decoration, in which the manager's list
\* got the 'SQL' decoration and a file got a point in time for its placeholder.
C16_Witness ==
    /\ pc = "done"
    /\ xlsx_decorator_result.returned
    /\ Len(copy_excel_decorations) = Len(excel_decorations.list) + 1
    /\ \E i \in Decorated : Timestamps(i) # {}

\* C17: hand-off list. What is given to the uploader is the export success list,
\* in order, followed by the path of the SQL file, and it is given only with a
\* jira_issue, after the export returned without a failure, after the decoration
\* (if one was requested) returned without a failure, and after the SQL file was
\* written; a run with records and a jira_issue that reaches its end has
\* uploaded and commented; without a jira_issue nothing is uploaded or commented.
C17_HandOffList ==
    /\ (uploaded # <<>> \/ commented \/ pc \in {"upload", "comment"}) =>
        /\ args.jira_issue # None
        /\ xlsx_exporter_result.returned /\ xlsx_exporter_result.errors = <<>>
        /\ ~args.excel_decorations.none
        /\ args.excel_decorations.list # <<>> =>
             xlsx_decorator_result.returned /\ xlsx_decorator_result.errors = <<>>
        /\ args.excel_decorations.list = <<>> => decoration_tasks = <<>>
        /\ sql_writes = 1
    /\ uploaded # <<>> =>
        uploaded = ExportSuccessList \o <<export_folderpath \o "/Data.sql">>
    /\ commented => uploaded # <<>>
    /\ (pc = "done" /\ args.jira_issue # None /\ result.record_count > 0) =>
        uploaded # <<>> /\ commented
    /\ (pc # "idle" /\ args.jira_issue = None) => uploaded = <<>> /\ ~commented

\* C17 witness: a run with a jira_issue ended after uploading two spreadsheets
\* and the SQL file, one chunk's older file having been skipped.
C17_Witness ==
    /\ pc = "done"
    /\ commented
    /\ Len(uploaded) = 3
    /\ xlsx_decorator_result.returned
    /\ \E i \in DOMAIN chunks : Skipped(i)

\* C18: companion artifact. The SQL file is written at most once in a run, and
\* a run that fetched records and reached its end has written it exactly once:
\* it lies in the export folder under the spreadsheet's base name with the
\* extension '.sql' and holds the text of the query as the caller gave it,
\* whatever the number of chunks.
C18_CompanionArtifact ==
    /\ sql_writes <= 1
    /\ (pc = "done" /\ result.record_count > 0) =>
        /\ sql_writes = 1
        /\ isfile(fs, export_folderpath \o "/Data.sql")
        /\ fs[export_folderpath \o "/Data.sql"].kind = "sql"
        /\ fs[export_folderpath \o "/Data.sql"].text = args.sql_statement
        /\ \A p \in DOMAIN fs : fs[p].kind = "sql" => p = export_folderpath \o "/Data.sql"

\* C18 witness: a run that exported three chunks has ended with its SQL file.
C18_Witness ==
    /\ pc = "done"
    /\ Len(chunks) = MaxRows
    /\ Len(export_tasks) = MaxRows
    /\ sql_writes = 1
    /\ fs[sql_filepath(export_folderpath)].text = "SELECT 1"

\* The names of the sheets in the file of decoration task i, in order.
SheetNames(i) ==
    LET sheets == fs[decoration_tasks[i].filepath].sheets
    IN  [k \in DOMAIN sheets |-> sheets[k].sheet_name]

\* The names of the sheets the caller's decorations ask for, in order.
SuppliedNames ==
    [k \in DOMAIN args.excel_decorations.list |-> args.excel_decorations.list[k].sheet_name]

\* C19 as claimed: a file exported and then decorated holds the data sheet and
\* exactly one sheet per decoration the caller supplied, in their order.
C19_SheetCountAsClaimed ==
    \A i \in Decorated : SheetNames(i) = <<args.sheet_name>> \o SuppliedNames

\* C19, amended: a file exported and then decorated in a run with N supplied
\* decorations holds N + 2 sheets: the data sheet, one sheet per supplied
\* decoration in their order, and last the built-in 'SQL' sheet with the query
\* details.
C19_SheetCount ==
    \A i \in Decorated :
        /\ Len(SheetNames(i)) = Len(args.excel_decorations.list) + 2
        /\ SheetNames(i) = <<args.sheet_name>> \o SuppliedNames \o <<"SQL">>
        /\ fs[decoration_tasks[i].filepath].rows = export_tasks[
             CHOOSE j \in DOMAIN export_tasks :
                export_tasks[j].filepath = decoration_tasks[i].filepath].records

\* C19 witness: the decoration stage returned and one of its files holds three
\* sheets for one supplied decoration.
C19_Witness ==
    /\ xlsx_decorator_result.returned
    /\ Len(args.excel_decorations.list) = MaxDecorations
    /\ \E i \in Decorated : Len(SheetNames(i)) = MaxDecorations + 2

\* The classification of the export stage as a function of the inputs of the
\* run, the files found in the folder and the set F of file paths whose task
\* hits an exception: neither the pool size nor the order in which the workers
\* take and finish the tasks occurs in it.
Classification(records, chunk_size, overwrite_files, folder, files, F) ==
    LET total == _calculate_total_file_count(Len(records), chunk_size)
        planned == {chunk_filepath(folder, total, i) :
                        i \in 1..Len(_chunker(records, chunk_size))}
        dispatched == {p \in planned : overwrite_files \/ ~isfile(files, p)}
    IN  [successes |-> dispatched \ F, failures |-> dispatched \cap F]

\* C20: determinism of classification. The file paths in the success list and
\* in the failure list of a stage that has returned are the values of a function
\* of the inputs, the files that existed at the call and the set of faulting
\* tasks; two runs that agree on these agree on both sets, whatever their
\* interleavings and pool sizes. The decoration stage classifies the successes
\* of the export stage in the same way.
C20_ClassificationDetermined ==
    LET c == Classification(result.records, args.chunk_size, args.overwrite_files,
                            export_folderpath, fs0, Faults("export"))
    IN  /\ xlsx_exporter_result.returned =>
            /\ Filepaths(xlsx_exporter_result.results) = c.successes
            /\ Filepaths(xlsx_exporter_result.errors) = c.failures
        /\ xlsx_decorator_result.returned =>
            /\ Filepaths(xlsx_decorator_result.results)
                 = c.successes \ Faults("decoration")
            /\ Filepaths(xlsx_decorator_result.errors)
                 = c.successes \cap Faults("decoration")

\* C20 witness: with the largest pool, the export stage returned after one chunk
\* was skipped, an earlier task failed and a later task succeeded.
C20_Witness ==
    /\ xlsx_exporter_result.returned
    /\ args.parallel_processes = MaxProcs
    /\ \E i \in DOMAIN chunks : Skipped(i)
    /\ \E i, j \in DOMAIN export_tasks :
        /\ i < j
        /\ export_tasks[i].outcome.kind = "error"
        /\ export_tasks[j].outcome.kind = "result"

\* The cells the claimed layout gives a decoration with m pairs: B3, and B and C
\* of the rows 6 .. 6 + m - 1.
LayoutCells(m) ==
    {"B3"} \cup {"B" \o ToString(6 + k) : k \in 0..(m - 1)}
           \cup {"C" \o ToString(6 + k) : k \in 0..(m - 1)}

\* C21: decoration layout. In every file a decoration task saved there is, after
\* the data sheet, one sheet per decoration in order, named after it; the sheet
\* holds the title in B3 and the k-th pair (from 0) in B(6+k) and C(6+k) and no
\* other cell; the rows start at 6 in every sheet; a pair with blank label and
\* blank content takes its row like any other.
C21_DecorationLayout ==
    \A i \in Decorated :
        LET file == fs[decoration_tasks[i].filepath]
            decorations == decoration_tasks[i].decorations
        IN  /\ Len(file.sheets) = 1 + Len(decorations)
            /\ \A d \in DOMAIN decorations :
                LET sheet == file.sheets[1 + d]
                    pairs == decorations[d].elements
                IN  /\ sheet.sheet_name = decorations[d].sheet_name
                    /\ DOMAIN sheet.cells = LayoutCells(Len(pairs))
                    /\ sheet.cells["B3"].str = decorations[d].title
                    /\ \A k \in 0..(Len(pairs) - 1) :
                        LET label == sheet.cells["B" \o ToString(6 + k)]
                            content == sheet.cells["C" \o ToString(6 + k)]
                        IN  /\ label.kind = "str"
                            /\ label.str = pairs[k + 1].label
                            /\ pairs[k + 1].content # "CURRENT_DATETIME" =>
                                /\ content.kind = "str"
                                /\ content.str = pairs[k + 1].content

\* C21 witness: a saved file whose second sheet has the blank pair in row 7 and
\* the pair after it in row 8, and whose third sheet starts again in row 6.
C21_Witness ==
    \E i \in Decorated :
        LET sheets == fs[decoration_tasks[i].filepath].sheets IN
        /\ Len(sheets) = 3
        /\ sheets[2].cells["B7"].str = "" /\ sheets[2].cells["C7"].str = ""
        /\ sheets[2].cells["B8"].str = "Created by"
        /\ sheets[3].cells["B6"].str = "Query duration"

\* C22: configuration preconditions. A call made while the Krano object has no
\* database configuration or no export folder (None or the empty string) ends
\* with a ValueError, that of the database configuration when both are missing,
\* and nothing has happened: no query, no pool, no task, no file written, no
\* upload.
C22_ConfigurationPreconditions ==
    (pc # "idle" /\ (db_connection_settings = None \/ export_folderpath \in {None, ""})) =>
        /\ pc = "raised"
        /\ raised = IF db_connection_settings = None
                    THEN "ValueError: No database configuration was set"
                    ELSE "ValueError: No export folderpath was defined"
        /\ ~result.queried
        /\ pools = 0
        /\ export_tasks = <<>> /\ decoration_tasks = <<>>
        /\ fs = fs0 /\ sql_writes = 0
        /\ uploaded = <<>> /\ ~commented

\* C22 witness: a call on a Krano object with neither configuration has raised.
C22_Witness ==
    /\ pc = "raised"
    /\ db_connection_settings = None
    /\ export_folderpath = None
    /\ raised = NoDatabaseConfig

\* C22 witness of the second check: the database configuration is set and the
\* folder is the empty string.
C22_WitnessFolder ==
    /\ pc = "raised"
    /\ db_connection_settings # None
    /\ export_folderpath = ""
    /\ raised = NoExportFolder

\* C23: cross-stage ordering. A decoration task exists (is submitted, let alone
\* started) only when every export task has completed and the export aggregate
\* was returned and found free of failures; the SQL file is written and the
\* upload is reached only when every decoration task has completed and, if there
\* was a decoration stage, its aggregate was found free of failures; so no
\* decoration task is queued or running while an export task is.
C23_CrossStageOrdering ==
    /\ (decoration_tasks # <<>> \/ pc = "decorate_dispatch") =>
        /\ xlsx_exporter_result.returned
        /\ xlsx_exporter_result.errors = <<>>
        /\ \A j \in DOMAIN export_tasks : export_tasks[j].status = "done"
    /\ (sql_writes > 0 \/ pc \in {"write_sql", "upload", "comment"} \/ uploaded # <<>>) =>
        /\ xlsx_exporter_result.returned
        /\ \A j \in DOMAIN export_tasks : export_tasks[j].status = "done"
        /\ \A i \in DOMAIN decoration_tasks : decoration_tasks[i].status = "done"
        /\ decoration_tasks # <<>> =>
            xlsx_decorator_result.returned /\ xlsx_decorator_result.errors = <<>>
    /\ \A i \in DOMAIN decoration_tasks : \A j \in DOMAIN export_tasks :
        decoration_tasks[i].status # "done" => export_tasks[j].status = "done"

\* C23 witness: a decoration task is running on a file of an export stage that
\* had three tasks.
C23_Witness ==
    /\ Len(export_tasks) = MaxRows
    /\ \E i \in DOMAIN decoration_tasks :
        /\ decoration_tasks[i].status = "running"
        /\ fs[decoration_tasks[i].filepath].kind = "xlsx"

\* C24: no write-write race between tasks. Any two export tasks of a run target
\* different file paths, any two decoration tasks of a run target different file
\* paths, and so no two tasks that are running at the same time write one file.
C24_NoWriteWriteRace ==
    /\ \A i, j \in DOMAIN export_tasks :
        i # j => export_tasks[i].filepath # export_tasks[j].filepath
    /\ \A i, j \in DOMAIN decoration_tasks :
        i # j => decoration_tasks[i].filepath # decoration_tasks[j].filepath
    /\ \A tasks \in {export_tasks, decoration_tasks} :
        \A i, j \in Running(tasks) : i # j => tasks[i].filepath # tasks[j].filepath

\* C24 witness: two of the three export tasks of a run are running at the same
\* time, each on its own file.
C24_Witness ==
    /\ Len(export_tasks) = MaxRows
    /\ \E i, j \in Running(export_tasks) :
        i # j /\ export_tasks[i].filepath # export_tasks[j].filepath

\* C25 as claimed: once the exporter has planned a run that fetched at least one
\* record with a chunk size its constructor accepted, the planned file count is
\* the number of chunks _chunker yields.
C25_FileCountIsChunkCount ==
    (pc = "export_dispatch" /\ result.record_count >= 1 /\ isdir(export_folderpath)) =>
        total_file_count = Len(_chunker(result.records, args.chunk_size))

\* C25 for the chunk sizes from 1 to the row limit: the planned file count is
\* the number of chunks, and the base name is used exactly when there is one
\* chunk.
C25_FileCountIsChunkCountPositive ==
    (pc = "export_dispatch" /\ result.record_count >= 1 /\ args.chunk_size >= 1) =>
        /\ total_file_count = Len(_chunker(result.records, args.chunk_size))
        /\ \A i \in DOMAIN export_tasks :
            export_tasks[i].filepath = export_folderpath \o "/Data.xlsx"
                <=> Len(_chunker(result.records, args.chunk_size)) = 1

\* A list of outcomes is in the order of the task numbers.
InTaskOrder(outs) == \A i, j \in DOMAIN outs : i < j => outs[i].no < outs[j].no

\* The number of the chunk that is written to the path, paths being the
\* targets of the chunks by number.
ChunkOf(paths, path) == CHOOSE k \in DOMAIN paths : paths[k] = path

\* C26: aggregate order follows dispatch order. In the aggregate of either stage
\* the successes are in the order their tasks were dispatched, and so are the
\* failures, whatever the order the tasks completed in; the decoration tasks and
\* the spreadsheets of the upload list are therefore in chunk order.
C26_AggregateInDispatchOrder ==
    LET paths == [k \in DOMAIN chunks |-> Target(k)] IN
    /\ xlsx_exporter_result.returned =>
        /\ InTaskOrder(xlsx_exporter_result.results)
        /\ InTaskOrder(xlsx_exporter_result.errors)
        /\ \A i \in DOMAIN xlsx_exporter_result.results :
            /\ xlsx_exporter_result.results[i].no \in DOMAIN paths
            /\ xlsx_exporter_result.results[i].filepath
                 = paths[xlsx_exporter_result.results[i].no]
    /\ xlsx_decorator_result.returned =>
        /\ InTaskOrder(xlsx_decorator_result.results)
        /\ InTaskOrder(xlsx_decorator_result.errors)
    /\ \A i, j \in DOMAIN decoration_tasks :
        i < j => ChunkOf(paths, decoration_tasks[i].filepath)
                    < ChunkOf(paths, decoration_tasks[j].filepath)
    /\ \A i, j \in 1..(Len(uploaded) - 1) :
        i < j => ChunkOf(paths, uploaded[i]) < ChunkOf(paths, uploaded[j])

\* C26 witness: the decoration stage returned two successes in dispatch order
\* although the task dispatched later wrote its file at an earlier time, and the
\* upload list of the run has its spreadsheets in chunk order.
C26_Witness ==
    /\ xlsx_decorator_result.returned
    /\ Len(uploaded) >= 3
    /\ \E i, j \in Decorated :
        /\ i < j
        /\ \E t \in Timestamps(i) : \E u \in Timestamps(j) : u < t

\* The sum of the row counts of a list of outcomes.
RECURSIVE RowSum(_)
RowSum(outs) == IF outs = <<>> THEN 0 ELSE Head(outs).row_count + RowSum(Tail(outs))

\* The rows of the chunks 1..k that the no-overwrite policy skips.
RECURSIVE SkippedRows(_)
SkippedRows(k) ==
    IF k = 0 THEN 0
    ELSE (IF Skipped(k) THEN Len(chunks[k]) ELSE 0) + SkippedRows(k - 1)

\* The row accounting of an export stage that has returned.
RowAccounting ==
    /\ \A i \in DOMAIN xlsx_exporter_result.results :
        LET r == xlsx_exporter_result.results[i] IN
        r.row_count = Len(chunks[r.no])
    /\ xlsx_exporter_result.errors = <<>> =>
        /\ RowSum(xlsx_exporter_result.results) + SkippedRows(Len(chunks))
             = result.record_count
        /\ args.overwrite_files =>
             RowSum(xlsx_exporter_result.results) = result.record_count

\* C27 as claimed: in every export stage that has returned, each success holds
\* the length of its own chunk as row count, and without failures the row counts
\* of the successes and the lengths of the skipped chunks add up to the number
\* of records fetched (the row counts alone with overwrite on).
C27_RowAccounting ==
    (xlsx_exporter_result.returned /\ isdir(export_folderpath)) => RowAccounting

\* C27 for the chunk sizes from 1 to the row limit.
C27_RowAccountingPositive ==
    (xlsx_exporter_result.returned /\ args.chunk_size >= 1) => RowAccounting

\* C28 as claimed: once the files are handed to JIRAForwarder.upload, the call
\* goes through every file of the list and never ends by an exception: the
\* driver comes to the comment step with all files attempted, whichever attempt
\* failed.
C28_UploadIsolation ==
    (uploaded # <<>> /\ args.chunk_size >= 1) =>
        /\ pc # "raised"
        /\ pc \in {"comment", "done"} => upload_counter = Len(uploaded)
        /\ pc = "done" => commented

\* What does hold: once an open() has bound openfile, no later attempt ends the
\* call, whatever it comes to; the next file is attempted or the call returns
\* to the driver, which goes to the comment.
C28_IsolationOnceOpened ==
    [][(pc = "uploading" /\ openfile # None) =>
          /\ pc' \in {"uploading", "comment"}
          /\ upload_counter' = upload_counter + 1
          /\ pc' = "comment" <=> upload_counter' = Len(uploaded)]_vars

\* A run ended with its comment after an upload in which an attempt failed.
C28_FailureSurvived ==
    /\ pc = "done"
    /\ commented
    /\ upload_failed
    /\ upload_counter = Len(uploaded)
    /\ Len(uploaded) >= 2

\* The number of whole divisions by 1024 that bring mant * 1024^exp bytes below
\* 1024, for a mantissa below 1024^2.
DivisionsNeeded(size) ==
    IF size.mant = 0 THEN 0
    ELSE IF size.mant < 1024 THEN size.exp ELSE size.exp + 1

UnitIndex(size) ==
    IF DivisionsNeeded(size) < Len(Units) - 1
    THEN DivisionsNeeded(size) ELSE Len(Units) - 1

\* C29: unit selection in _human_readable_size. For every byte size s >= 0 the
\* returned text is value + unit, the unit being the k-th of '', KB, MB, GB, TB
\* and the value s / 1024^k, with k the number of whole divisions by 1024 that
\* bring s below 1024, capped at TB; so the value times 1024^k is s.
C29_UnitSelection ==
    h_pc = "returned" =>
        LET k == UnitIndex(h_size)
            value == Float(h_size.mant, h_size.exp - k)
        IN  /\ h_result.unit = Units[k + 1]
            /\ h_result.size = value
            /\ h_result.text = FormatSize(Hundredths(value), Units[k + 1])

\* The same for the sizes that four divisions bring below 1024, which holds.
C29_UnitSelectionBelowCap ==
    (h_pc = "returned" /\ DivisionsNeeded(h_size) <= Len(Units) - 1) =>
        LET k == DivisionsNeeded(h_size)
            value == Float(h_size.mant, h_size.exp - k)
        IN  /\ h_result.unit = Units[k + 1]
            /\ h_result.size = value
            /\ h_result.text = FormatSize(Hundredths(value), Units[k + 1])

\* 524288 bytes have been given and "512.00KB" has come back.
C29_Example ==
    /\ h_pc = "returned"
    /\ h_size = Float(512, 1)
    /\ h_result.text = "512.00KB"

\* The text rounds: 1025 bytes come back as "1.00KB", and 1.00 * 1024 is not
\* 1025.
C29_Rounded ==
    /\ h_pc = "returned"
    /\ h_size = Float(1025, 0)
    /\ h_result.text = "1.00KB"

\* 1024^5 bytes come back as "1.00TB": the loop has divided five times.
C29_PastCap ==
    /\ h_pc = "returned"
    /\ h_size = Float(1, 5)
    /\ h_result.text = "1.00TB"

====
